---- MODULE Spec2Model ----
(***************************************************************************)
(* Model of the household electricity simulation:                          *)
(*   script/python/simulation.py            the reading generator (main)   *)
(*   script/python/streamlit_deployment.py  the usage aggregation query    *)
(*                                                                         *)
(* The specifications share the variables:                                 *)
(*   Spec       generator processes run one after the other against the   *)
(*              electricity_consumption table (FairSpec: each process     *)
(*              runs to its end);                                          *)
(*   PowerSpec  insert_sql_statement called once on a nominal wattage;     *)
(*   AggSpec    total_usage_query evaluated on an arbitrary stored table.  *)
(***************************************************************************)
EXTENDS Integers, Sequences, FiniteSets, TLC

VARIABLES
    pc,             \* position of the current process in main()
    runs,           \* generator processes started so far
    clock,          \* wall clock, seconds since StartDate 00:00:00
    now_dttm,       \* main(): now_dttm = datetime.now()
    rng,            \* state of the shared generator of module random
    i,              \* simulation.py global logger counter
    log,            \* lines the logger of this process has written
    conn,           \* psycopg2 connection of this process
    cur,            \* psycopg2 cursor of this process
    txn,            \* rows inserted by the open transaction, not committed
    db,             \* committed rows of table electricity_consumption
    db_at_start,    \* table contents when the current process started
    rating,         \* last (appliance_name, power) given to insert_sql_statement
    final_power,    \* insert_sql_statement: last value drawn
    ac_bounds,      \* per date seed, the air-conditioner bounds computed
    wm_bounds,      \* per date seed, the washing-machine bounds computed
    total_usage_df  \* the dashboard's result of total_usage_query

vars == <<pc, runs, clock, now_dttm, rng, i, log, conn, cur, txn, db,
          db_at_start, rating, final_power, ac_bounds, wm_bounds, total_usage_df>>

(***************************************************************************)
(* Bounds of the model.                                                    *)
(***************************************************************************)
MaxRuns == 2        \* generator processes per behaviour
NumDays == 2        \* calendar days the clock may cover
MaxNominal == 40    \* PowerSpec: nominal wattages 1..MaxNominal
MaxRows == 4        \* AggSpec: rows of the stored table

(***************************************************************************)
(* Calendar: datetime, strftime('%Y%m%d'), now.hour.                        *)
(***************************************************************************)
StartDate == [year |-> 2025, month |-> 10, day |-> 31]

IsLeap(y) == (y % 4 = 0 /\ y % 100 # 0) \/ y % 400 = 0

DaysInMonth(y, m) ==
    IF m = 2 THEN (IF IsLeap(y) THEN 29 ELSE 28)
    ELSE IF m \in {4, 6, 9, 11} THEN 30 ELSE 31

NextDay(d) ==
    IF d.day < DaysInMonth(d.year, d.month)
    THEN [d EXCEPT !.day = d.day + 1]
    ELSE IF d.month < 12
         THEN [d EXCEPT !.month = d.month + 1, !.day = 1]
         ELSE [year |-> d.year + 1, month |-> 1, day |-> 1]

RECURSIVE AddDays(_, _)
AddDays(d, n) == IF n = 0 THEN d ELSE AddDays(NextDay(d), n - 1)

\* the calendar date and the hour of a datetime
DateOf(t) == AddDays(StartDate, t \div (24 * 3600))
Hour(t) == (t % (24 * 3600)) \div 3600

\* int(now.strftime('%Y%m%d'))
today_seed(t) ==
    DateOf(t).year * 10000 + DateOf(t).month * 100 + DateOf(t).day

(***************************************************************************)
(* Module random.  The generator state is either seeded from the operating *)
(* system (seed() without argument, and at import) or from an integer; a   *)
(* seeded state is determined by the seed and the randint calls made since.*)
(***************************************************************************)
OsSeeded == [kind |-> "os", seed |-> 0, calls |-> <<>>]
Seeded(n) == [kind |-> "int", seed |-> n, calls |-> <<>>]

\* CPython's Mersenne Twister after seed(n): the first randint(a, b), and
\* the second one after a first randint(a0, b0).  Values of CPython 3 for
\* the seeds of the modelled dates.
MersenneTwister ==
    [s \in {20251031, 20251101, 20251102, 20251103} |->
        CASE s = 20251031 ->
                (<<<<>>, 6, 10>> :> 10) @@ (<<<<6, 10>>, 4, 24>> :> 13) @@
                (<<<<>>, 6, 7>> :> 7) @@ (<<<<6, 7>>, 7, 9>> :> 7)
          [] s = 20251101 ->
                (<<<<>>, 6, 10>> :> 9) @@ (<<<<6, 10>>, 4, 24>> :> 21) @@
                (<<<<>>, 6, 7>> :> 7) @@ (<<<<6, 7>>, 7, 9>> :> 9)
          [] s = 20251102 ->
                (<<<<>>, 6, 10>> :> 7) @@ (<<<<6, 10>>, 4, 24>> :> 23) @@
                (<<<<>>, 6, 7>> :> 6) @@ (<<<<6, 7>>, 7, 9>> :> 9)
          [] s = 20251103 ->
                (<<<<>>, 6, 10>> :> 7) @@ (<<<<6, 10>>, 4, 24>> :> 16) @@
                (<<<<>>, 6, 7>> :> 6) @@ (<<<<6, 7>>, 7, 9>> :> 8)]

\* the values randint(a, b) can return in generator state g
randint(g, a, b) ==
    IF /\ g.kind = "int"
       /\ g.seed \in DOMAIN MersenneTwister
       /\ <<g.calls, a, b>> \in DOMAIN MersenneTwister[g.seed]
    THEN {MersenneTwister[g.seed][<<g.calls, a, b>>]}
    ELSE a .. b

\* the generator state after randint(a, b)
Advance(g, a, b) ==
    IF g.kind = "int" THEN [g EXCEPT !.calls = g.calls \o <<a, b>>] ELSE g

(***************************************************************************)
(* insert_sql_statement: the power written into a reading.                 *)
(***************************************************************************)
\* Python round() of the rational n/d, d > 0: to nearest, ties to even
round(n, d) ==
    LET q == n \div d
        r == n % d
    IN  IF 2 * r > d \/ (2 * r = d /\ q % 2 = 1) THEN q + 1 ELSE q

\* variation = 0.05, in percent
variation == 5

\* round(power*(1-variation)) and round(power*(1+variation))
upper_bound_excl(power) == round(power * (100 + variation), 100) + 1
lower_bound(power) == round(power * (100 - variation), 100)
upper_bound(power) == round(power * (100 + variation), 100)

\* the nominal ratings main() passes: refrigerator_rating,
\* airconditioners_dict (in insertion order), washing_machine_rating
refrigerator_rating_pasted ==
    [appliance_name |-> "Washing Machine", power |-> 300]
refrigerator_rating == [appliance_name |-> "Refrigerator", power |-> 300]
airconditioners_dict ==
    << [appliance_name |-> "Europace Portable AC", power |-> 2100],
       [appliance_name |-> "Wall mounted AC", power |-> 3500] >>
washing_machine_rating == [appliance_name |-> "Washing Machine", power |-> 1000]

Ratings ==
    {refrigerator_rating, airconditioners_dict[1], airconditioners_dict[2],
     washing_machine_rating}

\* a line of the logger
Line(kind, counter, name, watts) ==
    [kind |-> kind, counter |-> counter, appliance_name |-> name,
     power |-> watts]

\* a row of electricity_consumption
Row(name, watts, ts) ==
    [appliance_name |-> name, power_consumption_val |-> watts,
     recorded_at_timestamp |-> ts]

(***************************************************************************)
(* The generator process: main() of simulation.py.                         *)
(***************************************************************************)
\* instants at which the first process may start, and the delays the
\* external scheduler may leave between two processes
StartClocks == {7 * 3600, 12 * 3600 + 55 * 60, 23 * 3600 + 55 * 60}
ClockSteps == {5 * 60, 6 * 60, 24 * 3600}

\* the draws of the operating-system seeded generator that Spec follows:
\* the two ends of the interval
PowerSamples(a, b) == {a, b}

Init ==
    /\ pc = "idle"
    /\ runs = 0
    /\ clock \in StartClocks
    /\ now_dttm = 0
    /\ rng = OsSeeded
    /\ i = 1
    /\ log = <<>>
    /\ conn = "none"
    /\ cur = "none"
    /\ txn = <<>>
    /\ db = <<>>
    /\ db_at_start = <<>>
    /\ rating = refrigerator_rating
    /\ final_power = 0
    /\ ac_bounds = {}
    /\ wm_bounds = {}
    /\ total_usage_df = <<>>

\* main(): now_dttm = datetime.now(); logger.info("... Simulation initiated...")
StartRun ==
    /\ pc = "idle"
    /\ runs < MaxRuns
    /\ runs' = runs + 1
    /\ now_dttm' = clock
    /\ log' = Append(log, Line("initiated", 0, "", 0))
    /\ db_at_start' = db
    /\ pc' = "connect"
    /\ UNCHANGED <<clock, rng, i, conn, cur, txn, db, rating, final_power,
                   ac_bounds, wm_bounds, total_usage_df>>

\* main(): except Exception as e: logger.error(...); raise e
HandlerTwice(lg) ==
    Append(Append(lg, Line("error", 0, "", 0)), Line("error", 0, "", 0))
Handler(lg) == Append(lg, Line("error", 0, "", 0))

\* conn, cur = connect_db()
ConnectDb ==
    /\ pc = "connect"
    /\ \E ok \in BOOLEAN :
          IF ok
          THEN /\ conn' = "open"
               /\ cur' = "open"
               /\ pc' = "refrigerator"
               /\ log' = log
          ELSE /\ log' = Handler(log)
               /\ pc' = "raised"
               /\ UNCHANGED <<conn, cur>>
    /\ UNCHANGED <<runs, clock, now_dttm, rng, i, txn, db, db_at_start,
                   rating, final_power, ac_bounds, wm_bounds, total_usage_df>>

\* the log line and counter of insert_sql_statement(r.appliance_name,
\* r.power, now, logger) drawing fp
Inserted(lg, r, fp) ==
    Append(lg, Line("INSERTED", i, r.appliance_name, fp))

\* insert_sql_statement(*r) followed by cur.execute(statement): seed(), the
\* draw, the log line and the counter; then the row joins the transaction
\* (NOW() is the server clock) or psycopg2 raises into main()'s handler
Insert(r, next) ==
    \E fp \in randint(OsSeeded, lower_bound(r.power), upper_bound(r.power))
              \cap PowerSamples(lower_bound(r.power), upper_bound(r.power)),
       ok \in BOOLEAN :
        /\ rng' = Advance(OsSeeded, lower_bound(r.power), upper_bound(r.power))
        /\ rating' = r
        /\ final_power' = fp
        /\ i' = i + 1
        /\ IF ok
           THEN /\ log' = Inserted(log, r, fp)
                /\ txn' = Append(txn, Row(r.appliance_name, fp, clock))
                /\ pc' = next
           ELSE /\ log' = Handler(Inserted(log, r, fp))
                /\ txn' = txn
                /\ pc' = "raised"
        /\ UNCHANGED <<runs, clock, now_dttm, conn, cur, db, db_at_start,
                       ac_bounds, wm_bounds, total_usage_df>>

\* simulate_refrigerator_usage
SimulateRefrigerator ==
    /\ pc = "refrigerator"
    /\ Insert(refrigerator_rating, "airconditioner")

\* simulate_airconditioner_usage: the seed, the two bounds and the test
AcSeed(t, g) == Seeded(today_seed(t))
AcActive(t, morning_upper_bound, night_upper_bound) ==
    Hour(t) <= morning_upper_bound \/ Hour(t) >= night_upper_bound

SimulateAirconditioner ==
    /\ pc = "airconditioner"
    /\ LET g0 == AcSeed(now_dttm, rng)
           g1 == Advance(g0, 6, 10)
       IN  \E morning_upper_bound \in randint(g0, 6, 10),
              night_upper_bound \in randint(g1, 4, 24) :
             /\ rng' = Advance(g1, 4, 24)
             /\ ac_bounds' = ac_bounds \cup
                    {<<today_seed(now_dttm), morning_upper_bound,
                       night_upper_bound>>}
             /\ pc' = IF AcActive(now_dttm, morning_upper_bound,
                                  night_upper_bound)
                      THEN "europace" ELSE "washing_machine"
    /\ UNCHANGED <<runs, clock, now_dttm, i, log, conn, cur, txn, db,
                   db_at_start, rating, final_power, wm_bounds,
                   total_usage_df>>

\* for appliance, power in airconditioners_dict.items(): where control goes
\* after the body ran on item k
LoopReturns(k) == "washing_machine"
LoopNext(k) ==
    IF k < Len(airconditioners_dict) THEN "wall_mounted"
    ELSE "washing_machine"

InsertEuropace ==
    /\ pc = "europace"
    /\ Insert(airconditioners_dict[1], LoopNext(1))

InsertWallMounted ==
    /\ pc = "wall_mounted"
    /\ Insert(airconditioners_dict[2], LoopNext(2))

\* simulate_washing_machine_usage: the seed, the two bounds and the test
\* (g is the generator state the function finds, which seed() replaces)
WmSeedKept(t, g) == g
WmSeed(t, g) == Seeded(today_seed(t))
WmActive(t, morning_lower_bound, morning_upper_bound) ==
    Hour(t) >= morning_lower_bound /\ Hour(t) <= morning_upper_bound

SimulateWashingMachine ==
    /\ pc = "washing_machine"
    /\ LET g0 == WmSeed(now_dttm, rng)
           g1 == Advance(g0, 6, 7)
       IN  \E morning_lower_bound \in randint(g0, 6, 7),
              morning_upper_bound \in randint(g1, 7, 9) :
             /\ rng' = Advance(g1, 7, 9)
             /\ wm_bounds' = wm_bounds \cup
                    {<<today_seed(now_dttm), morning_lower_bound,
                       morning_upper_bound>>}
             /\ pc' = IF WmActive(now_dttm, morning_lower_bound,
                                  morning_upper_bound)
                      THEN "washing" ELSE "commit"
    /\ UNCHANGED <<runs, clock, now_dttm, i, log, conn, cur, txn, db,
                   db_at_start, rating, final_power, ac_bounds,
                   total_usage_df>>

InsertWashingMachine ==
    /\ pc = "washing"
    /\ Insert(washing_machine_rating, "commit")

\* conn.commit(); cur.close(); conn.close(); logger.info("... completed ...")
Commit ==
    /\ pc = "commit"
    /\ \E ok \in BOOLEAN :
          IF ok
          THEN /\ db' = db \o txn
               /\ txn' = <<>>
               /\ cur' = "closed"
               /\ conn' = "closed"
               /\ log' = Append(log, Line("completed", 0, "", 0))
               /\ pc' = "done"
          ELSE /\ log' = Handler(log)
               /\ pc' = "raised"
               /\ UNCHANGED <<db, txn, cur, conn>>
    /\ UNCHANGED <<runs, clock, now_dttm, rng, i, db_at_start, rating,
                   final_power, ac_bounds, wm_bounds, total_usage_df>>

\* the process ends (main() returned or re-raised): the server rolls back
\* what was not committed, and the module state dies with the process
ProcessExit ==
    /\ pc \in {"done", "raised"}
    /\ pc' = "exited"
    /\ txn' = <<>>
    /\ conn' = "none"
    /\ cur' = "none"
    /\ i' = 1
    /\ log' = <<>>
    /\ rng' = OsSeeded
    /\ UNCHANGED <<runs, clock, now_dttm, db, db_at_start, rating,
                   final_power, ac_bounds, wm_bounds, total_usage_df>>

\* the external scheduler waits, then asks for the next process
Schedule ==
    /\ pc = "exited"
    /\ runs < MaxRuns
    /\ \E step \in ClockSteps :
          /\ clock + step < NumDays * 24 * 3600
          /\ clock' = clock + step
    /\ pc' = "idle"
    /\ UNCHANGED <<runs, now_dttm, rng, i, log, conn, cur, txn, db,
                   db_at_start, rating, final_power, ac_bounds, wm_bounds,
                   total_usage_df>>

\* the steps of one process, from its start to its end
Process ==
    \/ StartRun
    \/ ConnectDb
    \/ SimulateRefrigerator
    \/ SimulateAirconditioner
    \/ InsertEuropace
    \/ InsertWallMounted
    \/ SimulateWashingMachine
    \/ InsertWashingMachine
    \/ Commit
    \/ ProcessExit

Next == Process \/ Schedule

Spec == Init /\ [][Next]_vars

\* main() is synchronous: a process that was asked for starts and runs to
\* its end.  Whether the scheduler asks for another one is not up to the
\* program, so a behaviour may end once a process has exited.
FairSpec == Spec /\ WF_vars(Process)

(***************************************************************************)
(* PowerSpec: insert_sql_statement on a nominal wattage, every draw of the *)
(* generator followed.                                                     *)
(***************************************************************************)
PowerInit ==
    /\ pc = "call"
    /\ runs = 0
    /\ clock = 0
    /\ now_dttm = 0
    /\ rng = OsSeeded
    /\ i = 1
    /\ log = <<>>
    /\ conn = "none"
    /\ cur = "none"
    /\ txn = <<>>
    /\ db = <<>>
    /\ db_at_start = <<>>
    /\ rating \in Ratings \cup
          {[appliance_name |-> "Refrigerator", power |-> p] :
              p \in 1 .. MaxNominal}
    /\ final_power = 0
    /\ ac_bounds = {}
    /\ wm_bounds = {}
    /\ total_usage_df = <<>>

\* insert_sql_statement(rating.appliance_name, rating.power, now, logger)
PowerCall ==
    /\ pc = "call"
    /\ \E fp \in randint(OsSeeded, lower_bound(rating.power),
                          upper_bound(rating.power)) :
          /\ final_power' = fp
          /\ log' = Inserted(log, rating, fp)
    /\ rng' = Advance(OsSeeded, lower_bound(rating.power),
                      upper_bound(rating.power))
    /\ i' = i + 1
    /\ pc' = "returned"
    /\ UNCHANGED <<runs, clock, now_dttm, conn, cur, txn, db, db_at_start,
                   rating, ac_bounds, wm_bounds, total_usage_df>>

PowerNext == PowerCall

PowerSpec == PowerInit /\ [][PowerNext]_vars

(***************************************************************************)
(* total_usage_query of streamlit_deployment.py (test.py holds the same    *)
(* query without the final ORDER BY).                                      *)
(***************************************************************************)
\* appliance names in the order ORDER BY appliance_name gives them
ApplianceOrder ==
    <<"Europace Portable AC", "Refrigerator", "Wall mounted AC",
      "Washing Machine">>

\* INTERVAL '6 minutes', in seconds
six_minutes == 6 * 60

\* ORDER BY on <<key, row>> pairs: x inserted after the last pair whose key
\* is not above x's
RECURSIVE InsertSorted(_, _)
InsertSorted(s, x) ==
    IF s = <<>> THEN <<x>>
    ELSE IF s[Len(s)][1] <= x[1] THEN Append(s, x)
    ELSE Append(InsertSorted(SubSeq(s, 1, Len(s) - 1), x), s[Len(s)])

RECURSIVE SortPairs(_)
SortPairs(s) ==
    IF s = <<>> THEN <<>>
    ELSE InsertSorted(SortPairs(SubSeq(s, 1, Len(s) - 1)), s[Len(s)])

\* PARTITION BY appliance_name ORDER BY recorded_at_timestamp
Partition(table, name) ==
    LET mine == SelectSeq(table, LAMBDA r : r.appliance_name = name)
        sorted == SortPairs([k \in 1 .. Len(mine) |->
                                <<mine[k].recorded_at_timestamp, mine[k]>>])
    IN  [k \in 1 .. Len(mine) |-> sorted[k][2]]

\* LAG(recorded_at_timestamp): <<>> is NULL
Lag(part) ==
    [k \in 1 .. Len(part) |->
        [appliance_name |-> part[k].appliance_name,
         power_consumption_val |-> part[k].power_consumption_val,
         recorded_at_timestamp |-> part[k].recorded_at_timestamp,
         previous_timestamp |->
            IF k = 1 THEN <<>> ELSE <<part[k - 1].recorded_at_timestamp>>]]

\* the common table expression ordered_appliance
RECURSIVE OrderedFrom(_, _)
OrderedFrom(table, k) ==
    IF k > Len(ApplianceOrder) THEN <<>>
    ELSE Lag(Partition(table, ApplianceOrder[k])) \o OrderedFrom(table, k + 1)

ordered_appliance(table) == OrderedFrom(table, 1)

\* WHERE recorded_at_timestamp - previous_timestamp < INTERVAL '6 minutes'
\* (a NULL difference is not true)
WhereInclusive(r) ==
    /\ r.previous_timestamp # <<>>
    /\ r.recorded_at_timestamp - r.previous_timestamp[1] <= six_minutes
Where(r) ==
    /\ r.previous_timestamp # <<>>
    /\ r.recorded_at_timestamp - r.previous_timestamp[1] < six_minutes

\* GROUP BY appliance_name with COUNT(appliance_name) * 5
RECURSIVE GroupFrom(_, _)
GroupFrom(rows, k) ==
    IF k > Len(ApplianceOrder) THEN <<>>
    ELSE LET mine == SelectSeq(rows,
                        LAMBDA r : r.appliance_name = ApplianceOrder[k])
         IN  (IF mine = <<>> THEN <<>>
              ELSE <<[appliance_name |-> ApplianceOrder[k],
                      total_usage_minutes |-> Len(mine) * 5]>>)
             \o GroupFrom(rows, k + 1)

\* the whole query, ORDER BY COUNT(appliance_name) * 5 last; rows of equal
\* total keep the order of their names
total_usage_query(table) ==
    LET groups == GroupFrom(SelectSeq(ordered_appliance(table), Where), 1)
        sorted == SortPairs([k \in 1 .. Len(groups) |->
                                <<groups[k].total_usage_minutes, groups[k]>>])
    IN  [k \in 1 .. Len(groups) |-> sorted[k][2]]

(***************************************************************************)
(* AggSpec: the query on a stored table.  Rows are stored in any order of  *)
(* their timestamps (transactions of overlapping processes commit in any   *)
(* order), then the dashboard reads the table.                             *)
(***************************************************************************)
AggTimes == {0, 5 * 60, 6 * 60, 11 * 60, 12 * 60 - 1}

AggInit ==
    /\ pc = "store"
    /\ runs = 0
    /\ clock = 0
    /\ now_dttm = 0
    /\ rng = OsSeeded
    /\ i = 1
    /\ log = <<>>
    /\ conn = "none"
    /\ cur = "none"
    /\ txn = <<>>
    /\ db = <<>>
    /\ db_at_start = <<>>
    /\ rating = refrigerator_rating
    /\ final_power = 0
    /\ ac_bounds = {}
    /\ wm_bounds = {}
    /\ total_usage_df = <<>>

\* a committed INSERT of some process
AggStore ==
    /\ pc = "store"
    /\ Len(db) < MaxRows
    /\ \E r \in {refrigerator_rating, washing_machine_rating},
          ts \in AggTimes :
          db' = Append(db, Row(r.appliance_name, r.power, ts))
    /\ UNCHANGED <<pc, runs, clock, now_dttm, rng, i, log, conn, cur, txn,
                   db_at_start, rating, final_power, ac_bounds, wm_bounds,
                   total_usage_df>>

\* total_usage_df = pd.read_sql(total_usage_query, engine)
AggQuery ==
    /\ pc = "store"
    /\ total_usage_df' = total_usage_query(db)
    /\ pc' = "queried"
    /\ UNCHANGED <<runs, clock, now_dttm, rng, i, log, conn, cur, txn, db,
                   db_at_start, rating, final_power, ac_bounds, wm_bounds>>

AggNext == AggStore \/ AggQuery

AggSpec == AggInit /\ [][AggNext]_vars

(***************************************************************************)
(* Properties.                                                             *)
(***************************************************************************)
Abs(x) == IF x < 0 THEN 0 - x ELSE x

\* k is Python's round(n/d): a nearest integer, the even one on a tie
IsRound(k, n, d) ==
    /\ 2 * Abs(d * k - n) <= d
    /\ (2 * Abs(d * k - n) = d) => k % 2 = 0

\* number of positions of sequence s that satisfy Test
CountSeq(s, Test(_)) == Cardinality({k \in DOMAIN s : Test(s[k])})

IsInserted(l) == l.kind = "INSERTED"
IsError(l) == l.kind = "error"

RowsOf(table, name) == CountSeq(table, LAMBDA r : r.appliance_name = name)

\* C1: for every nominal wattage p > 0 the power insert_sql_statement
\* draws and logs is an integer between round(0.95 p) and round(1.05 p),
\* both ends included; for the four configured ratings it is within 5% of
\* the rating.
C1_PowerInRange ==
    pc = "returned" =>
        LET p == rating.power
        IN  /\ \E lo \in 0 .. p :
                  IsRound(lo, 95 * p, 100) /\ lo <= final_power
            /\ \E hi \in p .. 2 * p :
                  IsRound(hi, 105 * p, 100) /\ final_power <= hi
            /\ log[Len(log)].power = final_power
            /\ rating \in Ratings =>
                  /\ 95 * p <= 100 * final_power
                  /\ 100 * final_power <= 105 * p

\* the wall-mounted unit drawing its largest value, 3675 W
C1_Witness ==
    /\ pc = "returned"
    /\ rating = airconditioners_dict[2]
    /\ 100 * final_power = 105 * rating.power

\* the readings of appliance name in table that have a reading of the same
\* appliance before them (earlier, or stored earlier at the same instant)
\* of which the latest is less than 360 seconds older
Before(table, j, k) ==
    /\ j # k
    /\ table[j].appliance_name = table[k].appliance_name
    /\ \/ table[j].recorded_at_timestamp < table[k].recorded_at_timestamp
       \/ /\ table[j].recorded_at_timestamp = table[k].recorded_at_timestamp
          /\ j < k

CloseFollowers(table, name) ==
    {k \in DOMAIN table :
        /\ table[k].appliance_name = name
        /\ \E j \in DOMAIN table :
              /\ Before(table, j, k)
              /\ \A h \in DOMAIN table :
                    Before(table, h, k) =>
                        table[h].recorded_at_timestamp
                            <= table[j].recorded_at_timestamp
              /\ table[k].recorded_at_timestamp
                    - table[j].recorded_at_timestamp < 360}

Reported(result, name) ==
    {result[k].total_usage_minutes : k \in
        {h \in DOMAIN result : result[h].appliance_name = name}}

\* C2: whatever the stored table, the total_usage_minutes the query
\* reports for an appliance is 5 times the number of its readings that
\* follow the previous reading of the same appliance by strictly less than
\* 360 seconds (a gap of exactly 360 seconds does not count), and every
\* appliance with such a reading is reported, once.
C2_TotalIsFiveTimesCloseReadings ==
    pc = "queried" =>
        /\ \A k \in DOMAIN total_usage_df :
              total_usage_df[k].total_usage_minutes =
                 5 * Cardinality(CloseFollowers(db,
                                    total_usage_df[k].appliance_name))
        /\ \A k \in DOMAIN ApplianceOrder :
              CloseFollowers(db, ApplianceOrder[k]) # {} =>
                 CountSeq(total_usage_df,
                    LAMBDA g : g.appliance_name = ApplianceOrder[k]) = 1

\* refrigerator readings at 0 s, 300 s and 660 s stored out of order: the
\* gap of 300 s counts, the gap of exactly 360 s does not
C2_Witness ==
    /\ pc = "queried"
    /\ Len(db) = 3
    /\ \A k \in DOMAIN db : db[k].appliance_name = "Refrigerator"
    /\ db[1].recorded_at_timestamp = 660
    /\ db[2].recorded_at_timestamp = 0
    /\ db[3].recorded_at_timestamp = 300
    /\ total_usage_df =
          <<[appliance_name |-> "Refrigerator", total_usage_minutes |-> 5]>>

\* C3: in the result of the query an appliance with exactly one reading
\* appears with total_usage_minutes = 0 and an appliance with no reading
\* does not appear.
C3_SingleReadingReportedZero ==
    pc = "queried" =>
        \A k \in DOMAIN ApplianceOrder :
            /\ RowsOf(db, ApplianceOrder[k]) = 1 =>
                  Reported(total_usage_df, ApplianceOrder[k]) = {0}
            /\ RowsOf(db, ApplianceOrder[k]) = 0 =>
                  Reported(total_usage_df, ApplianceOrder[k]) = {}

\* the committed readings of appliance name are n >= 1 readings, each 300
\* seconds after the one before
UniformFiveMinutes(table, name) ==
    LET mine == SelectSeq(table, LAMBDA r : r.appliance_name = name)
    IN  /\ Len(mine) >= 1
        /\ \A k \in 2 .. Len(mine) :
              mine[k].recorded_at_timestamp
                 = mine[k - 1].recorded_at_timestamp + 300

\* C4: once the generator has committed N >= 1 readings of an appliance
\* spaced 5 minutes apart, the query reports (N - 1) * 5 minutes for it.
C4_RoundTrip ==
    \A k \in DOMAIN ApplianceOrder :
        UniformFiveMinutes(db, ApplianceOrder[k]) =>
            Reported(total_usage_query(db), ApplianceOrder[k])
               = {(RowsOf(db, ApplianceOrder[k]) - 1) * 5}

\* C5: the air-conditioner bounds and the washing-machine bounds computed
\* on one calendar date are the same in every invocation of that date,
\* whatever the hour and whatever the generator state left by the power
\* draws.
C5_BoundsFunctionOfDate ==
    /\ \A x \in ac_bounds, y \in ac_bounds : x[1] = y[1] => x = y
    /\ \A x \in wm_bounds, y \in wm_bounds : x[1] = y[1] => x = y

\* a second invocation on the date of a committed first one, at another
\* hour, after power draws reseeded the generator, has computed both pairs
C5_Witness ==
    /\ runs = 2
    /\ pc = "commit"
    /\ db # <<>>
    /\ DateOf(db[1].recorded_at_timestamp) = DateOf(now_dttm)
    /\ Hour(db[1].recorded_at_timestamp) # Hour(now_dttm)
    /\ rng.kind = "int"
    /\ Cardinality(ac_bounds) = 1
    /\ Cardinality(wm_bounds) = 1

HasRow(table, name) == RowsOf(table, name) > 0

\* the air-conditioner step of the current invocation is over and one unit
\* was found active while the other was not
UnitsDiffer ==
    /\ pc \in {"washing_machine", "washing", "commit"}
    /\ HasRow(txn, "Europace Portable AC") # HasRow(txn, "Wall mounted AC")

RefrigeratorStepRan ==
    \/ pc \in {"airconditioner", "europace", "wall_mounted",
                "washing_machine", "washing", "commit", "done"}
    \/ pc = "raised" /\ conn = "open"
          /\ CountSeq(log, IsInserted) > 0

\* C7: whatever the date and the hour, an invocation that has run the
\* refrigerator step has issued exactly one "Refrigerator" insert, and
\* unless the storage failed the reading is in its transaction, then in
\* the table, exactly once.
C7_RefrigeratorAlwaysActive ==
    RefrigeratorStepRan =>
        /\ CountSeq(log, LAMBDA l : IsInserted(l)
                            /\ l.appliance_name = "Refrigerator") = 1
        /\ pc \notin {"raised", "done"} =>
              CountSeq(txn, LAMBDA r :
                  /\ r.appliance_name = "Refrigerator"
                  /\ r.recorded_at_timestamp = now_dttm) = 1
        /\ pc = "done" =>
              /\ RowsOf(db, "Refrigerator")
                    = RowsOf(db_at_start, "Refrigerator") + 1
              /\ db[Len(db_at_start) + 1].appliance_name = "Refrigerator"

\* at noon, with both air conditioners and the washing machine idle, the
\* refrigerator reading is the only one of the invocation
C7_Witness ==
    /\ pc = "commit"
    /\ Hour(now_dttm) = 12
    /\ Len(txn) = 1
    /\ txn[1].appliance_name = "Refrigerator"

\* C8: when connecting, an insert or the commit fails, the error is logged
\* once and the process does nothing more than end: no further insert is
\* issued and the table is as the process found it; the table changes only
\* by the single commit that follows the last appliance step.
C8_FailureLeavesNothing ==
    [][/\ pc' = "raised" =>
             /\ CountSeq(log', IsError) = 1
             /\ IsError(log'[Len(log')])
             /\ db' = db_at_start'
       /\ pc = "raised" =>
             /\ pc' = "exited"
             /\ txn' = <<>>
             /\ db' = db
       /\ db' # db =>
             /\ pc = "commit" /\ pc' = "done"
             /\ db' = db \o txn
             /\ CountSeq(log', IsError) = 0]_vars

\* the second air-conditioner insert fails after two inserts succeeded,
\* in a process that follows a committed one
C8_Witness ==
    /\ pc = "raised"
    /\ Len(txn) = 2
    /\ rating = airconditioners_dict[2]
    /\ db # <<>>
    /\ db = db_at_start

\* C9: at every point of a run the number of "INSERTED" lines logged, and
\* the advance of the counter from 1, equal the number of inserts that
\* executed successfully, also when an insert fails.
C9_CounterCountsSuccessfulInserts ==
    pc \in {"refrigerator", "airconditioner", "europace", "wall_mounted",
            "washing_machine", "washing", "commit", "raised"} =>
        /\ CountSeq(log, IsInserted) = Len(txn)
        /\ i - 1 = Len(txn)

\* C10: a run that opened a connection has closed its cursor and its
\* connection when it ends, with success or with a failure.
C10_ConnectionReleased ==
    (pc \in {"done", "raised"} /\ conn # "none") =>
        (conn = "closed" /\ cur = "closed")

====
